---- MODULE Spec2Model ----
(***************************************************************************)
(* Model of scan_multiple_github_repo_traffic.py: the table codec          *)
(* (write_table / read_table), the gap filler (complement_data_structure), *)
(* the two fetchers and the module-level script that merges freshly        *)
(* fetched traffic into the persisted tables and snapshot logs.            *)
(*                                                                         *)
(* Representation.                                                         *)
(*  - A day is an integer d, standing for the datetime 2024-01-d 00:00:00. *)
(*  - A Python int n is [int |-> n]; a Python str s is [str |-> s].        *)
(*  - A Python dict keyed by datetime (a table) is a sequence of           *)
(*    [date, row] records in insertion order, with distinct dates.         *)
(*  - A row (dict keyed by repository name) is a function from the set of  *)
(*    its keys to values; only write_table reads it, by key.               *)
(*  - A text file is a sequence of lines, a line a sequence of the fields  *)
(*    that print(..., sep=',') joins and split(',') separates.             *)
(*  - A path is the sequence of its '/'-separated components.              *)
(***************************************************************************)
EXTENDS Integers, Sequences, FiniteSets, TLC

\* ------------------------------------------------------------------ bounds
MaxDay == 3
MaxRuns == 2

Days == 1..MaxDay
Metrics == <<"view_count", "view_unique", "clone_count", "clone_unique">>
MetricSet == {Metrics[i] : i \in 1..Len(Metrics)}

\* ------------------------------------------------------- Python primitives
PyInt(n) == [int |-> n]
PyText(s) == [str |-> s]
NA == PyText("NA")

Digit == <<"0", "1", "2", "3", "4", "5", "6", "7", "8", "9">>

RECURSIVE Decimal(_)
Decimal(n) == IF n < 10 THEN Digit[n + 1] ELSE Decimal(n \div 10) \o Digit[(n % 10) + 1]

\* str(v), as print() renders a cell
PyStr(v) == IF "str" \in DOMAIN v THEN v.str ELSE Decimal(v.int)

\* str(datetime(2024, 1, d)), as print() renders a date key
DateStr(d) == "2024-01-" \o (IF d < 10 THEN "0" ELSE "") \o Decimal(d) \o " 00:00:00"

IsoDays == 1..31
IsIso(s) == \E d \in IsoDays : DateStr(d) = s
\* datetime.fromisoformat(s)
FromIso(s) == CHOOSE d \in IsoDays : DateStr(d) = s

SeqSet(s) == {s[i] : i \in 1..Len(s)}
SetMin(S) == CHOOSE x \in S : \A y \in S : x <= y
SetMax(S) == CHOOSE x \in S : \A y \in S : x >= y

\* ------------------------------------------------------------ dict helpers
Keys(t) == {t[i].date : i \in 1..Len(t)}
Row(t, d) == (CHOOSE i \in 1..Len(t) : t[i].date = d)
RowOf(t, d) == t[Row(t, d)].row
\* t[d] = row : replaces in place, or appends when d is a new key
DictSet(t, d, row) ==
    IF d \in Keys(t)
    THEN [i \in 1..Len(t) |-> IF t[i].date = d THEN [date |-> d, row |-> row] ELSE t[i]]
    ELSE Append(t, [date |-> d, row |-> row])
\* row[r] = v
RowSet(row, r, v) == [x \in DOMAIN row \cup {r} |-> IF x = r THEN v ELSE row[x]]
EmptyRow == [x \in {} |-> NA]

\* ------------------------------------------------------------- table codec
\* write_table: the header line, then one line per key of data in dict order
WriteRow(data, repo_list, i) ==
    <<DateStr(data[i].date)>> \o [j \in 1..Len(repo_list) |-> PyStr(data[i].row[repo_list[j]])]

write_table(data, repo_list) ==
    <<(<<"date">> \o repo_list)>> \o [i \in 1..Len(data) |-> WriteRow(data, repo_list, i)]

\* the inner loop of read_table: data[date][repo_list[i]] = count, for each
\* field after the first; a field beyond the header is an IndexError
RECURSIVE ReadRow(_, _, _, _)
ReadRow(sl, repo_list, i, row) ==
    IF i > Len(sl) - 1 THEN row
    ELSE ReadRow(sl, repo_list, i + 1, RowSet(row, repo_list[i], PyText(sl[i + 1])))

RECURSIVE ReadLines(_, _, _, _)
ReadLines(lines, repo_list, n, data) ==
    IF n > Len(lines) THEN data
    ELSE ReadLines(lines, repo_list, n + 1,
                   DictSet(data, FromIso(lines[n][1]),
                           ReadRow(lines[n], repo_list, 1, EmptyRow)))

\* a file read_table parses without raising
Readable(file) ==
    /\ Len(file) >= 1
    /\ \A n \in 2..Len(file) :
          /\ Len(file[n]) >= 1
          /\ IsIso(file[n][1])
          /\ Len(file[n]) <= Len(file[1])

read_table(file) == ReadLines(file, Tail(file[1]), 2, <<>>)

\* -------------------------------------------------------------- gap filler
\* lines 132-135: every repository of repo_list absent from a row gets "NA"
\* variant: a missing repository is initialised to 0
RECURSIVE AddReposZero(_, _, _)
AddReposZero(row, repo_list, j) ==
    IF j > Len(repo_list) THEN row
    ELSE AddReposZero(IF repo_list[j] \in DOMAIN row THEN row
                      ELSE RowSet(row, repo_list[j], [int |-> 0]),
                      repo_list, j + 1)

RECURSIVE AddRepos(_, _, _)
AddRepos(row, repo_list, j) ==
    IF j > Len(repo_list) THEN row
    ELSE AddRepos(IF repo_list[j] \in DOMAIN row THEN row ELSE RowSet(row, repo_list[j], NA),
                  repo_list, j + 1)

ZeroRow(repo_list) == [r \in SeqSet(repo_list) |-> PyInt(0)]

\* variant: the loop without the test of line 141
RECURSIVE FillDaysOverwrite(_, _, _, _)
FillDaysOverwrite(data, current, max_date, repo_list) ==
    IF current > max_date THEN data
    ELSE FillDaysOverwrite(DictSet(data, current, ZeroRow(repo_list)),
                           current + 1, max_date, repo_list)

\* lines 138-143: the while loop over the days of [current, max_date]
RECURSIVE FillDays(_, _, _, _)
FillDays(data, current, max_date, repo_list) ==
    IF current > max_date THEN data
    ELSE FillDays(IF current \in Keys(data) THEN data
                  ELSE DictSet(data, current, ZeroRow(repo_list)),
                  current + 1, max_date, repo_list)

\* variant: the range is not widened to the dates already in data
ComplementNoExtend(min_date, max_date, repo_list, data) ==
    LET d1 == [i \in 1..Len(data) |->
                  [date |-> data[i].date, row |-> AddRepos(data[i].row, repo_list, 1)]]
    IN  FillDays(d1, min_date, max_date, repo_list)

complement_data_structure(min_date, max_date, repo_list, data) ==
    LET lo == IF Len(data) > 0 THEN SetMin({min_date} \cup Keys(data)) ELSE min_date
        hi == IF Len(data) > 0 THEN SetMax({max_date} \cup Keys(data)) ELSE max_date
        d1 == [i \in 1..Len(data) |->
                  [date |-> data[i].date, row |-> AddRepos(data[i].row, repo_list, 1)]]
    IN  FillDays(d1, lo, hi, repo_list)

\* ---------------------------------------------------------------- fetchers
\* What the remote API answers for one repository: whether get_repo succeeds,
\* and for each traffic call whether it succeeds and the list it returns.
NoDict == [d \in {} |-> 0]
Stat(c, u) == [count |-> c, uniques |-> u]
Call(ok, list) == [ok |-> ok, list |-> list]
Api(repo_ok, views, clones) == [repo_ok |-> repo_ok, views |-> views, clones |-> clones]

\* the traffic of each repository: an early window and a late one
EarlyViews(r) ==
    IF r = "A" THEN (1 :> Stat(5, 1)) @@ (2 :> Stat(5, 2)) ELSE (1 :> Stat(6, 1))
LateViews(r) ==
    IF r = "A" THEN ((MaxDay - 1) :> Stat(7, 3)) @@ (MaxDay :> Stat(3, 1))
    ELSE ((MaxDay - 1) :> Stat(2, 2)) @@ (MaxDay :> Stat(1, 1))
LateClones(r) == (MaxDay :> Stat(4, 1))

MetricApis(r) ==
    {Api(FALSE, Call(FALSE, NoDict), Call(FALSE, NoDict)),
     Api(TRUE, Call(FALSE, NoDict), Call(FALSE, NoDict)),
     Api(TRUE, Call(TRUE, NoDict), Call(TRUE, NoDict)),
     Api(TRUE, Call(TRUE, EarlyViews(r)), Call(FALSE, NoDict)),
     Api(TRUE, Call(TRUE, LateViews(r)), Call(TRUE, LateClones(r)))}

Referrer == [referrer |-> "google.com", count |-> 3, uniques |-> 2]
Path == [path |-> "/", title |-> "home", count |-> 4, uniques |-> 2]

TopApis ==
    {[repo_ok |-> FALSE, referrers |-> Call(FALSE, <<>>), paths |-> Call(FALSE, <<>>)],
     [repo_ok |-> TRUE, referrers |-> Call(FALSE, <<>>), paths |-> Call(FALSE, <<>>)],
     [repo_ok |-> TRUE, referrers |-> Call(TRUE, <<>>), paths |-> Call(TRUE, <<>>)],
     [repo_ok |-> TRUE, referrers |-> Call(TRUE, <<Referrer>>), paths |-> Call(TRUE, <<Path>>)]}

Raised == [raised |-> TRUE]
Returned(d) == [raised |-> FALSE, data |-> d]

\* get_metrics: get_repo (line 52) is outside the try; inside it the views are
\* stored before get_clones_traffic is called
get_metrics(api, raise_error) ==
    IF ~api.repo_ok THEN Raised
    ELSE LET views == IF api.views.ok THEN api.views.list ELSE NoDict
             clones == IF api.views.ok /\ api.clones.ok THEN api.clones.list ELSE NoDict
             data == [k \in MetricSet |->
                        CASE k = "view_count" -> [d \in DOMAIN views |-> views[d].count]
                          [] k = "view_unique" -> [d \in DOMAIN views |-> views[d].uniques]
                          [] k = "clone_count" -> [d \in DOMAIN clones |-> clones[d].count]
                          [] k = "clone_unique" -> [d \in DOMAIN clones |-> clones[d].uniques]]
         IN  IF ~(api.views.ok /\ api.clones.ok) /\ raise_error THEN Raised ELSE Returned(data)

\* get_referrers_and_paths: same shape, get_repo (line 85) outside the try
get_referrers_and_paths(api, raise_error) ==
    IF ~api.repo_ok THEN Raised
    ELSE LET referrers == IF api.referrers.ok THEN api.referrers.list ELSE <<>>
             paths == IF api.referrers.ok /\ api.paths.ok THEN api.paths.list ELSE <<>>
         IN  IF ~(api.referrers.ok /\ api.paths.ok) /\ raise_error THEN Raised
             ELSE Returned([referrers |-> referrers, paths |-> paths])

\* -------------------------------------------------------------- filesystem
None == <<>>
\* path.rpartition("/")[0]
Folder(path) == SubSeq(path, 1, Len(path) - 1)
Prefixes(path) == {SubSeq(path, 1, n) : n \in 1..Len(path)}
\* open(path, 'w') succeeds when the containing folder exists
CanOpen(path, ds) == Folder(path) \in {<<>>, <<".">>} \cup ds

CsvName(k) == k \o ".csv"
CommandLine(folder, n) ==
    [files |-> [k \in MetricSet |-> folder \o <<CsvName(k)>>],
     referrers_file |-> IF n > 6 THEN folder \o <<"referrers.json">> ELSE None,
     paths_file |-> IF n > 7 THEN folder \o <<"paths.json">> ELSE None]
\* len(sys.argv) is 6 without the optional files, 8 with both
Argvs == {CommandLine(<<>>, 6), CommandLine(<<"out">>, 8)}

RepoLists == {<<>>, <<"A">>, <<"A", "B">>}

\* ------------------------------------------------------------------- state
VARIABLES
    pc,              \* position of the script
    run,             \* number of invocations started so far; also the clock
    argv,            \* the command line: files, referrers_file, paths_file
    dirs,            \* folders that exist
    disk,            \* path -> content of the files that exist
    repo_list, pre_data, raw_data, referrers_data, paths_data,
    i,               \* index of the fetch loop (line 189)
    min_date, max_date, data,
    error,           \* the exception that ended the run, or "none"
    disk0, dirs0,    \* history: disk and dirs when the current run started
    written          \* history: the table last handed to write_table, per file

vars == <<pc, run, argv, dirs, disk, repo_list, pre_data, raw_data, referrers_data,
          paths_data, i, min_date, max_date, data, error, disk0, dirs0, written>>

files == argv.files
referrers_file == argv.referrers_file
paths_file == argv.paths_file

NoTables == [k \in MetricSet |-> <<>>]
EmptyDict == [r \in {} |-> <<>>]

Init ==
    /\ pc = "exit"
    /\ run = 0
    /\ argv \in Argvs
    /\ dirs \in {{}, {<<"out">>}}
    /\ disk = [p \in {} |-> <<>>]
    /\ repo_list = <<>>
    /\ pre_data = NoTables
    /\ raw_data = EmptyDict
    /\ referrers_data = EmptyDict
    /\ paths_data = EmptyDict
    /\ i = 1
    /\ min_date = 0
    /\ max_date = 0
    /\ data = NoTables
    /\ error = "none"
    /\ disk0 = disk
    /\ dirs0 = dirs
    /\ written = NoTables

Crash(e) == pc' = "exit" /\ error' = e

\* lines 155-172: a new invocation of the script reads the repository list
StartRun ==
    /\ pc = "exit"
    /\ run < MaxRuns
    /\ run' = run + 1
    /\ repo_list' \in RepoLists
    /\ pre_data' = NoTables
    /\ raw_data' = EmptyDict
    /\ referrers_data' = EmptyDict
    /\ paths_data' = EmptyDict
    /\ i' = 1
    /\ min_date' = 0
    /\ max_date' = 0
    /\ data' = NoTables
    /\ error' = "none"
    /\ disk0' = disk
    /\ dirs0' = dirs
    /\ pc' = "read"
    /\ UNCHANGED <<argv, dirs, disk, written>>

\* lines 176-182: the tables already on disk
ReadTables ==
    /\ pc = "read"
    /\ IF \A k \in MetricSet : files[k] \in DOMAIN disk => Readable(disk[files[k]])
       THEN /\ pre_data' = [k \in MetricSet |->
                               IF files[k] \in DOMAIN disk
                               THEN read_table(disk[files[k]]) ELSE <<>>]
            /\ pc' = "fetch"
            /\ error' = error
       ELSE /\ Crash("ReadTableError")
            /\ pre_data' = pre_data
    /\ UNCHANGED <<run, argv, dirs, disk, repo_list, raw_data, referrers_data, paths_data,
                   i, min_date, max_date, data, disk0, dirs0, written>>

\* lines 189-200: one iteration of the fetch loop, for repo_list[i]
FetchRepo ==
    /\ pc = "fetch"
    /\ i <= Len(repo_list)
    /\ \E api \in MetricApis(repo_list[i]), top \in TopApis :
         LET r == repo_list[i]
             m == get_metrics(api, FALSE)
             wanted == referrers_file # None \/ paths_file # None
             t == get_referrers_and_paths(top, FALSE)
         IN  IF m.raised \/ (wanted /\ t.raised)
             THEN /\ Crash("GithubException")
                  /\ raw_data' = IF m.raised THEN raw_data
                                 ELSE [x \in DOMAIN raw_data \cup {r} |->
                                          IF x = r THEN m.data ELSE raw_data[x]]
                  /\ UNCHANGED <<referrers_data, paths_data, i>>
             ELSE /\ raw_data' = [x \in DOMAIN raw_data \cup {r} |->
                                     IF x = r THEN m.data ELSE raw_data[x]]
                  /\ IF wanted
                     THEN /\ referrers_data' =
                                [x \in DOMAIN referrers_data \cup {r} |->
                                    IF x = r THEN t.data.referrers ELSE referrers_data[x]]
                          /\ paths_data' =
                                [x \in DOMAIN paths_data \cup {r} |->
                                    IF x = r THEN t.data.paths ELSE paths_data[x]]
                     ELSE UNCHANGED <<referrers_data, paths_data>>
                  /\ i' = i + 1
                  /\ UNCHANGED <<pc, error>>
    /\ UNCHANGED <<run, argv, dirs, disk, repo_list, pre_data, min_date, max_date, data,
                   disk0, dirs0, written>>

all_dates == UNION {DOMAIN raw_data[r][k] : r \in DOMAIN raw_data, k \in MetricSet}

\* variant: an empty all_dates skips the tables instead of raising
TimeWindowLenient ==
    /\ pc = "fetch"
    /\ i > Len(repo_list)
    /\ IF all_dates = {}
       THEN /\ pc' = "referrers"
            /\ UNCHANGED <<min_date, max_date, error>>
       ELSE /\ min_date' = SetMin(all_dates)
            /\ max_date' = SetMax(all_dates)
            /\ pc' = "complement"
            /\ error' = error
    /\ UNCHANGED <<run, argv, dirs, disk, repo_list, pre_data, raw_data, referrers_data,
                   paths_data, i, data, disk0, dirs0, written>>

\* lines 203-208: min() and max() of an empty set raise ValueError
TimeWindow ==
    /\ pc = "fetch"
    /\ i > Len(repo_list)
    /\ IF all_dates = {}
       THEN /\ Crash("ValueError")
            /\ UNCHANGED <<min_date, max_date>>
       ELSE /\ min_date' = SetMin(all_dates)
            /\ max_date' = SetMax(all_dates)
            /\ pc' = "complement"
            /\ error' = error
    /\ UNCHANGED <<run, argv, dirs, disk, repo_list, pre_data, raw_data, referrers_data,
                   paths_data, i, data, disk0, dirs0, written>>

\* lines 210-216: complement_data_structure fills pre_data[k] in place and
\* returns it, so data[k] and pre_data[k] are the same dict from here on
Complement ==
    /\ pc = "complement"
    /\ data' = [k \in MetricSet |->
                   complement_data_structure(min_date, max_date, repo_list, pre_data[k])]
    /\ pre_data' = data'
    /\ pc' = "merge"
    /\ UNCHANGED <<run, argv, dirs, disk, repo_list, raw_data, referrers_data, paths_data,
                   i, min_date, max_date, error, disk0, dirs0, written>>

\* lines 221-224 for one table: data[k][date][repo] = value
RECURSIVE AddRepoData(_, _, _, _)
AddRepoData(table, raw, k, j) ==
    IF j > Len(repo_list) \/ repo_list[j] \notin DOMAIN raw THEN table
    ELSE LET repo == repo_list[j]
             t1 == [n \in 1..Len(table) |->
                      IF table[n].date \in DOMAIN raw[repo][k]
                      THEN [date |-> table[n].date,
                            row |-> RowSet(table[n].row, repo,
                                           PyInt(raw[repo][k][table[n].date]))]
                      ELSE table[n]]
         IN  AddRepoData(t1, raw, k, j + 1)

\* lines 219-224
AddNewData ==
    /\ pc = "merge"
    /\ data' = [k \in MetricSet |-> AddRepoData(data[k], raw_data, k, 1)]
    /\ pre_data' = data'
    /\ pc' = "mkdirs"
    /\ UNCHANGED <<run, argv, dirs, disk, repo_list, raw_data, referrers_data, paths_data,
                   i, min_date, max_date, error, disk0, dirs0, written>>

\* lines 229-232 for one key k of data: the folder is taken from k itself
FolderToMake(k) == Folder(<<k>>)
Makedirs(ds, folder) ==
    IF folder # <<>> /\ folder # <<".">> /\ folder \notin ds THEN ds \cup Prefixes(folder) ELSE ds

RECURSIVE MakeFolders(_, _)
MakeFolders(ds, j) ==
    IF j > Len(Metrics) THEN ds
    ELSE MakeFolders(Makedirs(ds, FolderToMake(Metrics[j])), j + 1)

\* lines 227-232
EnsureFolders ==
    /\ pc = "mkdirs"
    /\ dirs' = MakeFolders(dirs, 1)
    /\ pc' = "write"
    /\ UNCHANGED <<run, argv, disk, repo_list, pre_data, raw_data, referrers_data,
                   paths_data, i, min_date, max_date, data, error, disk0, dirs0, written>>

PutFile(d, path, content) == [p \in DOMAIN d \cup {path} |-> IF p = path THEN content ELSE d[p]]

\* lines 235-237: the files are written in dict order; the first open() that
\* fails ends the loop and the run
RECURSIVE WriteLoop(_, _)
WriteLoop(st, j) ==
    IF j > Len(Metrics) THEN st
    ELSE LET k == Metrics[j]
         IN  IF CanOpen(files[k], dirs)
             THEN WriteLoop([disk |-> PutFile(st.disk, files[k],
                                               write_table(data[k], repo_list)),
                             written |-> [st.written EXCEPT ![k] = data[k]],
                             failed |-> FALSE], j + 1)
             ELSE [st EXCEPT !.failed = TRUE]

\* lines 234-237
WriteFiles ==
    /\ pc = "write"
    /\ LET st == WriteLoop([disk |-> disk, written |-> written, failed |-> FALSE], 1)
       IN  /\ disk' = st.disk
           /\ written' = st.written
           /\ IF st.failed THEN Crash("FileNotFoundError")
              ELSE pc' = "referrers" /\ error' = error
    /\ UNCHANGED <<run, argv, dirs, repo_list, pre_data, raw_data, referrers_data,
                   paths_data, i, min_date, max_date, data, disk0, dirs0>>

\* json.load of a file json.dump wrote gives the list back; anything else is
\* replaced by []
LoadLog(path) == IF path \in DOMAIN disk THEN disk[path] ELSE <<>>
Snapshot(d) == [timestamp |-> run, data |-> d]

\* lines 242-269
WriteReferrers ==
    /\ pc = "referrers"
    /\ IF referrers_file # None /\ DOMAIN referrers_data # {}
       THEN LET log == Append(LoadLog(referrers_file), Snapshot(referrers_data))
                ds == Makedirs(dirs, Folder(referrers_file))
            IN  /\ dirs' = ds
                /\ disk' = PutFile(disk, referrers_file, log)
       ELSE UNCHANGED <<dirs, disk>>
    /\ pc' = "paths"
    /\ UNCHANGED <<run, argv, repo_list, pre_data, raw_data, referrers_data, paths_data, i,
                   min_date, max_date, data, error, disk0, dirs0, written>>

\* lines 271-298
WritePaths ==
    /\ pc = "paths"
    /\ IF paths_file # None /\ DOMAIN paths_data # {}
       THEN LET log == Append(LoadLog(paths_file), Snapshot(paths_data))
                ds == Makedirs(dirs, Folder(paths_file))
            IN  /\ dirs' = ds
                /\ disk' = PutFile(disk, paths_file, log)
       ELSE UNCHANGED <<dirs, disk>>
    /\ pc' = "exit"
    /\ UNCHANGED <<run, argv, repo_list, pre_data, raw_data, referrers_data, paths_data, i,
                   min_date, max_date, data, error, disk0, dirs0, written>>

Next ==
    \/ StartRun
    \/ ReadTables
    \/ FetchRepo
    \/ TimeWindow
    \/ Complement
    \/ AddNewData
    \/ EnsureFolders
    \/ WriteFiles
    \/ WriteReferrers
    \/ WritePaths

Spec == Init /\ [][Next]_vars

\* ------------------------------------------ a run over any well-formed table
\* The gap filler takes whatever read_table returns.  InitFill starts the last
\* run over table files with any set of days (gaps included) and any header.
RECURSIVE Ascending(_)
Ascending(S) == IF S = {} THEN <<>> ELSE <<SetMin(S)>> \o Ascending(S \ {SetMin(S)})

TableFile(header, D) ==
    <<(<<"date">> \o header)>> \o
    [n \in 1..Cardinality(D) |->
        <<DateStr(Ascending(D)[n])>> \o [j \in 1..Len(header) |-> Decimal(4 + j)]]

FillTables == {TableFile(h, D) : h \in {<<"A">>, <<"B">>, <<"A", "B">>}, D \in SUBSET Days}

InitFill ==
    /\ pc = "exit"
    /\ run = MaxRuns - 1
    /\ argv \in Argvs
    /\ dirs = {<<"out">>}
    /\ \E T \in FillTables, c \in BOOLEAN :
          disk = [p \in {files[k] : k \in IF c THEN MetricSet ELSE {"view_count", "view_unique"}}
                    |-> T]
    /\ repo_list = <<>>
    /\ pre_data = NoTables
    /\ raw_data = EmptyDict
    /\ referrers_data = EmptyDict
    /\ paths_data = EmptyDict
    /\ i = 1
    /\ min_date = 0
    /\ max_date = 0
    /\ data = NoTables
    /\ error = "none"
    /\ disk0 = disk
    /\ dirs0 = dirs
    /\ written = NoTables

SpecFill == InitFill /\ [][Next]_vars

\* ------------------------------------------------------------------ claims
Header(file) == Tail(file[1])
FileDays(file) == {FromIso(file[n][1]) : n \in 2..Len(file)}
FileDaySeq(file) == [n \in 1..(Len(file) - 1) |-> FromIso(file[n + 1][1])]
HasCell(file, d, r) == d \in FileDays(file) /\ r \in SeqSet(Header(file))
CellText(file, d, r) ==
    LET n == CHOOSE n \in 2..Len(file) : FromIso(file[n][1]) = d
        j == CHOOSE j \in 1..Len(Header(file)) : Header(file)[j] = r
    IN  file[n][j + 1]

Persisted(k) == files[k] \in DOMAIN disk0
Old(k) == disk0[files[k]]
New(k) == disk[files[k]]
Fetched(r, k) == IF r \in DOMAIN raw_data THEN DOMAIN raw_data[r][k] ELSE {}
Filled == pc = "merge"
Merged == pc \in {"mkdirs", "write", "referrers", "paths"}
             \/ (pc = "exit" /\ run > 0 /\ error \in {"none", "FileNotFoundError"})
RunWrote == pc \in {"referrers", "paths"} \/ (pc = "exit" /\ run > 0 /\ error = "none")
FetchLoopOver == run > 0 /\ pc \notin {"read", "fetch"} /\ error # "ReadTableError"

\* C1: the table the gap filler returns for the range [min_date, max_date]
\* and the persisted table T has as keys exactly the days of
\* [min(min_date, min T), max(max_date, max T)], each once; [min_date,
\* max_date] when T is empty.
C1_RangeExact ==
    Filled =>
        \A k \in MetricSet :
            LET T == IF Persisted(k) THEN FileDays(Old(k)) ELSE {}
                lo == SetMin({min_date} \cup T)
                hi == SetMax({max_date} \cup T)
            IN  /\ Keys(data[k]) = lo..hi
                /\ Len(data[k]) = hi - lo + 1

\* C1 witness: the persisted table spans [1, MaxDay] with a day missing
\* inside, the fetched range is narrower, and the filler has run.
C1_Witness ==
    /\ Filled
    /\ Persisted("view_count")
    /\ FileDays(Old("view_count")) = Days \ {2}
    /\ min_date = 1 /\ max_date = 1
    /\ Keys(data["view_count"]) = Days

\* C2: every row of the table the gap filler returns has exactly the
\* repositories of repo_list as keys.
C2_RowsExactlyRepoList ==
    Filled =>
        \A k \in MetricSet : \A n \in 1..Len(data[k]) :
            DOMAIN data[k][n].row = SeqSet(repo_list)

\* C3: every table file on disk lists its date rows in strictly ascending order.
C3_RowsAscending ==
    \A k \in MetricSet :
        files[k] \in DOMAIN disk =>
            \A m, n \in 1..(Len(New(k)) - 1) :
                m < n => FileDaySeq(New(k))[m] < FileDaySeq(New(k))[n]

Kept(k, d, r) == HasCell(New(k), d, r) /\ CellText(New(k), d, r) = CellText(Old(k), d, r)

\* C4 as stated: after a run, every cell in a persisted table for which no value was fetched has
\* the same value in the rewritten file, whatever the repository list is.
C4_AnyRepoListKept ==
    RunWrote =>
        \A k \in MetricSet : Persisted(k) =>
            \A d \in FileDays(Old(k)) : \A r \in SeqSet(Header(Old(k))) :
                d \notin Fetched(r, k) => Kept(k, d, r)

\* C4 amended: after a run, every cell of a persisted table whose
\* repository is still in the repository list and for which no value was
\* fetched has the same value in the rewritten file.
C4_ListedRepoKept ==
    RunWrote =>
        \A k \in MetricSet : Persisted(k) =>
            \A d \in FileDays(Old(k)) : \A r \in SeqSet(Header(Old(k))) \cap SeqSet(repo_list) :
                d \notin Fetched(r, k) => Kept(k, d, r)

\* C4 witness: a run rewrote a table that had a cell it did not fetch.
C4_Witness ==
    /\ RunWrote
    /\ Persisted("view_count")
    /\ \E d \in FileDays(Old("view_count")) :
          /\ d \notin Fetched("A", "view_count")
          /\ Fetched("A", "view_count") # {}
          /\ HasCell(Old("view_count"), d, "A")
          /\ CellText(Old("view_count"), d, "A") = "5"
          /\ CellText(New("view_count"), d, "A") = "5"

\* C5: read_table of the text write_table produced for a table whose rows
\* have exactly the header's repositories returns that table.
C5_RoundTrip ==
    (pc = "fetch" /\ run > 0) =>
        \A k \in MetricSet :
            (/\ Persisted(k)
             /\ \A n \in 1..Len(written[k]) :
                   DOMAIN written[k][n].row = SeqSet(Header(Old(k))))
            => pre_data[k] = written[k]

\* C6: a repository of the list that is no column of the persisted table
\* has NA in the merged table on every persisted date not fetched for it, and
\* the fetched value on every date fetched for it; the written file shows
\* the same.
C6_NewRepoNA ==
    Merged =>
        \A k \in MetricSet : Persisted(k) =>
            \A B \in SeqSet(repo_list) \ SeqSet(Header(Old(k))) :
                /\ \A d \in FileDays(Old(k)) \ Fetched(B, k) :
                      /\ RowOf(data[k], d)[B] = NA
                      /\ RunWrote => CellText(New(k), d, B) = "NA"
                /\ \A d \in Fetched(B, k) :
                      /\ RowOf(data[k], d)[B] = PyInt(raw_data[B][k][d])
                      /\ RunWrote => CellText(New(k), d, B) = Decimal(raw_data[B][k][d])

\* C6 witness: the scenario of the specification.
C6_Witness ==
    /\ RunWrote
    /\ Persisted("view_count")
    /\ Old("view_count") = <<<<"date", "A">>,
                             <<"2024-01-01 00:00:00", "5">>,
                             <<"2024-01-02 00:00:00", "5">>>>
    /\ New("view_count") = <<<<"date", "A", "B">>,
                             <<"2024-01-01 00:00:00", "5", "NA">>,
                             <<"2024-01-02 00:00:00", "7", "2">>,
                             <<"2024-01-03 00:00:00", "3", "1">>>>

Logs == {p \in {referrers_file, paths_file} : p # None /\ p \in DOMAIN disk}

\* C7: every snapshot in a log has only repositories with a non-empty entry
\* list, and at least one.
C7_SnapshotsNonEmpty ==
    \A p \in Logs : \A n \in 1..Len(disk[p]) :
        /\ DOMAIN disk[p][n].data # {}
        /\ \A r \in DOMAIN disk[p][n].data : disk[p][n].data[r] # <<>>

\* C8: with raise_error = False no fetch failure ends the run: when the
\* fetch loop is left, every repository of the list has been fetched.
C8_BestEffortContinues ==
    /\ error # "GithubException"
    /\ FetchLoopOver => DOMAIN raw_data = SeqSet(repo_list)

\* C9: a run whose fetches returned no date at all ends in an error and
\* leaves every file and folder as it found them.
C9_NoDatesNoWrite ==
    (FetchLoopOver /\ all_dates = {}) =>
        /\ pc = "exit"
        /\ error # "none"
        /\ disk = disk0
        /\ dirs = dirs0

\* C9 witness: every repository of a non-empty list was fetched, none
\* returned a date, tables were on disk, and the run has ended.
C9_Witness ==
    /\ FetchLoopOver
    /\ all_dates = {}
    /\ DOMAIN raw_data = {"A", "B"}
    /\ Persisted("view_count")
    /\ pc = "exit"
    /\ error = "ValueError"

\* C10: no run fails because the folder of a table file is missing: when
\* the files are about to be written, each one's folder exists.
C10_FoldersCreated ==
    /\ error # "FileNotFoundError"
    /\ pc = "write" => \A k \in MetricSet : CanOpen(files[k], dirs)

====
